---- MODULE Spec2Model ----
(***************************************************************************)
(* A model of nemo/context.py: the Context class, its bulk capacity        *)
(* assignment, its derived metrics, its text report and its JSON           *)
(* projection.                                                             *)
(***************************************************************************)
EXTENDS Integers, Sequences, FiniteSets, TLC

\* ------------------------------------------------------------------ bounds
MaxGens == 2
MaxTun == 2
MaxCapsLen == 3

\* Tunable bounds (min_cap, max_cap) a generator may declare, and the
\* capacity values a caller may pass: below, within and above the bounds.
BoundPairs == {<<1, 1>>, <<1, 2>>}
CapVals == {0, 1, 3}
\* The capacity a tunable holds before any bulk assignment.
InitCap == 20000

SeqsUpTo(S, n) == UNION {[1..k -> S] : k \in 0..n}

MaxRows == 3
MaxHour == 4

\* --------------------------------------------------------------- variables
\* One bulk assignment, seen from inside set_capacities:
\*   fleet    each generator's setters list, as its (min_cap, max_cap) pairs
\*   vals     the value each tunable holds (what its setter stored last)
\*   old      vals on entry to the call
\*   caps     the argument of the call
\*   calls    the setter invocations of the call, in order: <<g, j, newval>>
\*   outcome  "none" before the call, then "returned" or the exception raised
\*   msg      the exception's message
\* The running program:
\*   regional  len(hourly_regional_demand), the module-level table of nemo.nem
\*   tables    the table objects by identity; tables[0] is nemo.nem.hourly_demand
\*   genobjs   the generator objects by identity
\*   ctxs      the Context objects constructed so far; table and generator
\*             attributes hold identities
\*   actor     the Context the last statement was about (0: none)
\*   ret       what the last statement returned
VARIABLES fleet, vals, old, caps, calls, outcome, msg,
          regional, tables, genobjs, ctxs, actor, ret

capsVars == <<fleet, vals, old, caps, calls, outcome, msg>>
progVars == <<regional, tables, genobjs, ctxs, actor, ret>>
vars == <<capsVars, progVars>>

\* ------------------------------------------------- helpers: min, max, sums
Min(a, b) == IF b < a THEN b ELSE a
Max(a, b) == IF b > a THEN b ELSE a

\* -------------------------------------------------------- set_capacities
\* gen.setters of every generator, in the order the two nested loops visit
\* them: <<g, j>> is the j-th tunable of the g-th generator.
RECURSIVE Slots(_, _)
Slots(gens, g) ==
    IF g > Len(gens) THEN <<>>
    ELSE [j \in 1..Len(gens[g]) |-> <<g, j>>] \o Slots(gens, g + 1)

TotalTunables(gens) == Len(Slots(gens, 1))

\* The generator's setter: stores the value it is given.
Setter(v, g, j, newval) == [v EXCEPT ![g][j] = newval]

ClampedNoLower(cap, min_cap, max_cap) == Min(cap, max_cap)
\* newval = max(min(caps[num], max_cap), min_cap)
Clamped(cap, min_cap, max_cap) == Max(Min(cap, max_cap), min_cap)

AllSetLoose(num, n) == num <= n
\* the condition of the final assert
AllSet(num, n) == num = n

\* The loop of set_capacities from slot number num (0-based, as in the code)
\* on: st holds the generator values and the setter calls made so far.
RECURSIVE CapLoop(_, _, _, _, _)
CapLoop(gens, slots, cs, st, num) ==
    IF num >= Len(slots)
    THEN IF AllSet(num, Len(cs))
         THEN [vals |-> st.vals, calls |-> st.calls, outcome |-> "returned",
               msg |-> <<>>]
         ELSE [vals |-> st.vals, calls |-> st.calls, outcome |-> "AssertionError",
               msg |-> <<num, Len(cs)>>]
    ELSE IF num >= Len(cs)
         THEN \* caps[num] is out of range
              [vals |-> st.vals, calls |-> st.calls, outcome |-> "IndexError",
               msg |-> <<"list index out of range">>]
         ELSE LET g == slots[num + 1][1]
                  j == slots[num + 1][2]
                  newval == Clamped(cs[num + 1], gens[g][j][1], gens[g][j][2])
              IN CapLoop(gens, slots, cs,
                         [vals |-> Setter(st.vals, g, j, newval),
                          calls |-> Append(st.calls, <<g, j, newval>>)],
                         num + 1)

set_capacities_checked_first(gens, v, cs) ==
    IF Len(cs) = TotalTunables(gens)
    THEN CapLoop(gens, Slots(gens, 1), cs, [vals |-> v, calls |-> <<>>], 0)
    ELSE [vals |-> v, calls |-> <<>>,
          outcome |-> IF Len(cs) < TotalTunables(gens) THEN "IndexError"
                      ELSE "AssertionError",
          msg |-> <<TotalTunables(gens), Len(cs)>>]
set_capacities(gens, v, cs) ==
    CapLoop(gens, Slots(gens, 1), cs, [vals |-> v, calls |-> <<>>], 0)

\* ----------------------------------------------- specification: capacities
Generators == SeqsUpTo(BoundPairs, MaxTun)
Fleets == SeqsUpTo(Generators, MaxGens)

InitCaps ==
    /\ fleet \in Fleets
    /\ vals = [g \in 1..Len(fleet) |-> [j \in 1..Len(fleet[g]) |-> InitCap]]
    /\ old = vals
    /\ caps = <<>>
    /\ calls = <<>>
    /\ outcome = "none"
    /\ msg = <<>>

SetCapacities ==
    /\ outcome = "none"
    /\ \E cs \in SeqsUpTo(CapVals, MaxCapsLen) :
         LET r == set_capacities(fleet, vals, cs)
         IN /\ caps' = cs
            /\ old' = vals
            /\ vals' = r.vals
            /\ calls' = r.calls
            /\ outcome' = r.outcome
            /\ msg' = r.msg
    /\ UNCHANGED <<fleet, progVars>>

IdleProg ==
    /\ regional = 0
    /\ tables = (0 :> <<>>)
    /\ genobjs = <<>>
    /\ ctxs = <<>>
    /\ actor = 0
    /\ ret = [op |-> "none"]

InitCapsOnly == InitCaps /\ IdleProg

NextCaps == SetCapacities
SpecCaps == InitCapsOnly /\ [][NextCaps]_vars

\* ------------------------------------------------------- numbers (floats)
\* A float is "nan", "inf" (of a sign) or an exact ratio num / den, den # 0.
NaN == [kind |-> "nan"]
Inf(sign) == [kind |-> "inf", sign |-> sign]
Ratio(n, d) == [kind |-> "num", num |-> n, den |-> d]

\* numpy's float division: dividing by zero warns and yields nan or inf.
Divide(u, d) ==
    IF d = 0 THEN (IF u = 0 THEN NaN ELSE Inf(IF u > 0 THEN 1 ELSE -1))
    ELSE Ratio(u, d)

TimesInt(x, k) == IF x.kind = "num" THEN Ratio(x.num * k, x.den) ELSE x

\* x > n / d for d > 0; every comparison with nan is false.
GreaterThan(x, n, d) ==
    CASE x.kind = "nan" -> FALSE
      [] x.kind = "inf" -> x.sign > 0
      [] OTHER -> IF x.den > 0 THEN x.num * d > n * x.den
                  ELSE x.num * d < n * x.den

RECURSIVE SumSeq(_)
SumSeq(q) == IF q = <<>> THEN 0 ELSE q[1] + SumSeq(Tail(q))

\* ------------------------------------------------------------ characters
\* Strings the code takes apart are sequences of characters.
ClassOpen == <<"<", "c", "l", "a", "s", "s", " ", "'">>
ClassClose == <<"'", ">">>
Dot == <<".">>
ModGenerators == <<"g", "e", "n", "e", "r", "a", "t", "o", "r", "s">>
ModNemoGenerators == <<"n", "e", "m", "o">> \o Dot \o ModGenerators
CCGT == <<"C", "C", "G", "T">>
OCGT == <<"O", "C", "G", "T">>
PV == <<"P", "V">>

\* ------------------------------------------------------- the object heap
\* The smallest identity not in use.
FreshId(used) == CHOOSE n \in 0..Cardinality(used) :
                    n \notin used /\ \A m \in 0..(n - 1) : m \in used

Alloc(tbls, content) ==
    LET id == FreshId(DOMAIN tbls)
    IN [tables |-> tbls @@ (id :> content), id |-> id]

copy_alias(tbls, src) == [tables |-> tbls, id |-> src]
\* DataFrame.copy(): a new object with the same content
copy(tbls, src) == Alloc(tbls, tbls[src])

TableFields == {"demand", "spill", "generation", "unserved"}

\* Whether something other than attribute f of Context c refers to table id.
SharedTable(c, f, id) ==
    \/ id = 0
    \/ \E c2 \in 1..Len(ctxs), f2 \in TableFields :
         <<c2, f2>> # <<c, f>> /\ ctxs[c2][f2] = id

\* A generator as the catalog constructs it: generators.CCGT(polygon, capacity).
\* It declares one tunable, its capacity.
NewGenerator(module, cls, capacity) ==
    [module |-> module, cls |-> cls, polygon |-> "WILDCARD", label |-> cls,
     capacity |-> capacity, setters |-> <<<<1, 2>>>>, vals |-> <<capacity>>]

\* The Context's attributes with the objects they refer to.
View(c) ==
    [verbose |-> ctxs[c].verbose,
     regions_all |-> ctxs[c].regions_all,
     hours |-> ctxs[c].hours,
     timesteps |-> ctxs[c].timesteps,
     demand |-> tables[ctxs[c].demand],
     spill |-> tables[ctxs[c].spill],
     generation |-> tables[ctxs[c].generation],
     unserved |-> tables[ctxs[c].unserved],
     generators |-> [k \in 1..Len(ctxs[c].generators) |-> genobjs[ctxs[c].generators[k]]]]

\* ------------------------------------------------------- derived metrics
RelstdNum == 2
RelstdDen == 1000
ToleranceNum == 1001
ToleranceDen == 1000

total_demand(o) == SumSeq(o.demand)
unserved_energy(o) == SumSeq([i \in 1..Len(o.unserved) |-> o.unserved[i].v])
surplus_energy(o) == SumSeq(o.spill)

unserved_percent_unguarded(o) ==
    TimesInt(Divide(unserved_energy(o), total_demand(o)), 100)
unserved_percent(o) ==
    IF total_demand(o) = 0 THEN NaN
    ELSE TimesInt(Divide(unserved_energy(o), total_demand(o)), 100)

\* ------------------------------------------------------------ the report
Line(label, args) == [label |-> label, args |-> args]

\* rng[i]: pd.date_range(index[0], periods=len(index), freq='H'), 1-based.
RngFlat(index, i) == index[1]
Rng(index, i) == index[1] + (i - 1)

\* The keys of unserved.groupby(unserved.index - rng): one group per
\* distinct offset.
unserved_events(o) ==
    {o.unserved[i].t - Rng([k \in 1..Len(o.unserved) |-> o.unserved[k].t], i) :
        i \in 1..Len(o.unserved)}

SeqMin(q) == CHOOSE x \in {q[i] : i \in 1..Len(q)} : \A i \in 1..Len(q) : x <= q[i]
SeqMax(q) == CHOOSE x \in {q[i] : i \in 1..Len(q)} : \A i \in 1..Len(q) : x >= q[i]

ExceedsUnlessBelow(o) ==
    \/ unserved_percent(o).kind = "nan"
    \/ GreaterThan(unserved_percent(o), RelstdNum * ToleranceNum, RelstdDen * ToleranceDen)
\* unserved_percent() > relstd * 1.001
Exceeds(o) ==
    GreaterThan(unserved_percent(o), RelstdNum * ToleranceNum, RelstdDen * ToleranceDen)

UnservedLines(o) ==
    IF o.unserved = <<>>
    THEN <<Line("No unserved energy", <<>>)>>
    ELSE <<Line("Unserved energy", <<unserved_percent(o)>>)>>
         \o (IF Exceeds(o)
             THEN <<Line("WARNING: reliability standard exceeded", <<>>)>>
             ELSE <<>>)
         \o <<Line("Unserved total hours", <<Len(o.unserved)>>),
              Line("Number of unserved energy events",
                   <<Cardinality(unserved_events(o))>>),
              Line("Shortfalls (min, max)",
                   LET v == [i \in 1..Len(o.unserved) |-> o.unserved[i].v]
                   IN <<SeqMin(v), SeqMax(v)>>)>>

TimestepsLineDrift(o) == Line("Timesteps", <<o.timesteps>>)
TimestepsLine(o) == Line("Timesteps", <<o.hours>>)

\* Context.__str__, line by line
Str(o) ==
    (IF ~o.regions_all THEN <<Line("Regions", <<>>)>> ELSE <<>>)
    \o (IF o.verbose
        THEN <<Line("Generators:", <<>>)>>
             \o [g \in 1..Len(o.generators) |-> Line("generator", <<g>>)]
        ELSE <<>>)
    \o <<TimestepsLine(o),
         Line("Demand energy", <<total_demand(o)>>),
         Line("Unused surplus energy", <<surplus_energy(o)>>)>>
    \o (IF surplus_energy(o) > 0
        THEN <<Line("Timesteps with unused surplus energy",
                    <<Cardinality({i \in 1..Len(o.spill) : o.spill[i] > 0})>>)>>
        ELSE <<>>)
    \o UnservedLines(o)

\* ------------------------------------------------------- JSON projection
MatchAt(str, i, pat) ==
    /\ i >= 1
    /\ i + Len(pat) - 1 <= Len(str)
    /\ SubSeq(str, i, i + Len(pat) - 1) = pat

SetMin(S) == CHOOSE x \in S : \A y \in S : x <= y
SetMax(S) == CHOOSE x \in S : \A y \in S : x >= y

\* re.sub(pre + "(.*)" + suf, r"\1", str): the leftmost match of pre whose
\* greedy (.*) runs to the last suf is replaced by the group; what follows
\* the last suf holds no further suf, so there is no second match.
re_sub_group(pre, suf, str) ==
    LET ends(i) == {j \in (i + Len(pre))..Len(str) : MatchAt(str, j, suf)}
        starts == {i \in 1..Len(str) : MatchAt(str, i, pre) /\ ends(i) # {}}
    IN IF starts = {} THEN str
       ELSE LET i == SetMin(starts)
                j == SetMax(ends(i))
            IN SubSeq(str, 1, i - 1)
               \o SubSeq(str, i + Len(pre), j - 1)
               \o SubSeq(str, j + Len(suf), Len(str))

\* str(type(gen))
TypeStr(gen) == ClassOpen \o gen.module \o Dot \o gen.cls \o ClassClose

\* re.sub(r"<class 'generators\.(.*)'>", r'\1', str(type(gen)))
Technology(gen) ==
    re_sub_group(ClassOpen \o ModGenerators \o Dot, ClassClose, TypeStr(gen))

\* Context.JSONEncoder.default(o)
JSONEncoderDefault(isContext, o) ==
    IF isContext
    THEN [kind |-> "list",
          items |-> [k \in 1..Len(o.generators) |->
                        [label |-> o.generators[k].label,
                         polygon |-> o.generators[k].polygon,
                         capacity |-> o.generators[k].capacity,
                         technology |-> Technology(o.generators[k])]]]
    ELSE [kind |-> "None"]

\* ------------------------------------------------------------ statements
NoValue == [op |-> "none"]

\* The identities given to n new generator objects when keep stay in use.
RECURSIVE FreshIds(_, _)
FreshIds(used, n) ==
    IF n = 0 THEN <<>>
    ELSE <<FreshId(used)>> \o FreshIds(used \cup {FreshId(used)}, n - 1)

\* c = Context()
Construct(P) ==
    /\ Len(ctxs) < P.nctx
    /\ LET d == copy(tables, 0)
           s == Alloc(d.tables, <<>>)
           g == Alloc(s.tables, <<>>)
           u == Alloc(g.tables, <<>>)
           ids == FreshIds(DOMAIN genobjs, 2)
       IN /\ tables' = u.tables
          /\ genobjs' = genobjs @@ (ids[1] :> NewGenerator(ModNemoGenerators, CCGT, InitCap))
                                @@ (ids[2] :> NewGenerator(ModNemoGenerators, OCGT, InitCap))
          /\ ctxs' = Append(ctxs,
                 [verbose |-> FALSE,
                  regions_all |-> TRUE,
                  hours |-> regional,
                  generators |-> ids,
                  demand |-> d.id,
                  timesteps |-> Len(d.tables[d.id]),
                  spill |-> s.id,
                  generation |-> g.id,
                  unserved |-> u.id])
    /\ actor' = Len(ctxs) + 1
    /\ ret' = NoValue
    /\ UNCHANGED <<regional, capsVars>>

\* c.<f> = <a new table>: the attribute refers to a new object.
AssignTable(c, f, content) ==
    /\ IF SharedTable(c, f, ctxs[c][f])
       THEN LET a == Alloc(tables, content)
            IN /\ tables' = a.tables
               /\ ctxs' = [ctxs EXCEPT ![c][f] = a.id]
       ELSE /\ tables' = [tables EXCEPT ![ctxs[c][f]] = content]
            /\ UNCHANGED ctxs
    /\ actor' = c
    /\ ret' = NoValue
    /\ UNCHANGED <<regional, genobjs, capsVars>>

\* The table c.<f> refers to is changed in place.
MutateTable(c, f, content) ==
    /\ tables' = [tables EXCEPT ![ctxs[c][f]] = content]
    /\ actor' = c
    /\ ret' = NoValue
    /\ UNCHANGED <<regional, genobjs, ctxs, capsVars>>

\* c.verbose = b
SetVerbose(c, b) ==
    /\ ctxs' = [ctxs EXCEPT ![c].verbose = b]
    /\ actor' = c
    /\ ret' = NoValue
    /\ UNCHANGED <<regional, tables, genobjs, capsVars>>

\* c.regions = <a selection>: b says whether it is regions.All
SetRegions(c, b) ==
    /\ ctxs' = [ctxs EXCEPT ![c].regions_all = b]
    /\ actor' = c
    /\ ret' = NoValue
    /\ UNCHANGED <<regional, tables, genobjs, capsVars>>

\* c.generators = [<new generators>]: the fleet is replaced wholesale.
AssignGenerators(c, kinds) ==
    /\ LET kept == [id \in DOMAIN genobjs \ {ctxs[c].generators[k] :
                                             k \in 1..Len(ctxs[c].generators)}
                      |-> genobjs[id]]
           ids == FreshIds(DOMAIN kept, Len(kinds))
       IN /\ genobjs' = [id \in DOMAIN kept \cup {ids[k] : k \in 1..Len(ids)} |->
                           IF id \in DOMAIN kept THEN kept[id]
                           ELSE LET k == CHOOSE k \in 1..Len(ids) : ids[k] = id
                                IN NewGenerator(kinds[k][1], kinds[k][2], InitCap)]
          /\ ctxs' = [ctxs EXCEPT ![c].generators = ids]
    /\ actor' = c
    /\ ret' = NoValue
    /\ UNCHANGED <<regional, tables, capsVars>>

\* c.set_capacities(cs)
CtxSetCapacities(c, cs) ==
    /\ LET ids == ctxs[c].generators
           r == set_capacities([k \in 1..Len(ids) |-> genobjs[ids[k]].setters],
                               [k \in 1..Len(ids) |-> genobjs[ids[k]].vals], cs)
       IN /\ genobjs' = [id \in DOMAIN genobjs |->
                           IF \E k \in 1..Len(ids) : ids[k] = id
                           THEN LET v == r.vals[CHOOSE k \in 1..Len(ids) : ids[k] = id]
                                IN [genobjs[id] EXCEPT
                                      !.vals = v,
                                      !.capacity = IF v = <<>> THEN @ ELSE v[1]]
                           ELSE genobjs[id]]
          /\ ret' = [op |-> "set_capacities", outcome |-> r.outcome, msg |-> r.msg]
    /\ actor' = c
    /\ UNCHANGED <<regional, tables, ctxs, capsVars>>

Returns(c, op, value) ==
    /\ ret' = [op |-> op, value |-> value]
    /\ actor' = c
    /\ UNCHANGED <<regional, tables, genobjs, ctxs, capsVars>>

CallTotalDemand(c) == Returns(c, "total_demand", total_demand(View(c)))
CallUnservedEnergy(c) == Returns(c, "unserved_energy", unserved_energy(View(c)))
CallSurplusEnergy(c) == Returns(c, "surplus_energy", surplus_energy(View(c)))
CallUnservedPercent(c) == Returns(c, "unserved_percent", unserved_percent(View(c)))
CallStr(c) == Returns(c, "str", Str(View(c)))
\* json.dumps(c, cls=Context.JSONEncoder)
Encode(c) == Returns(c, "json", JSONEncoderDefault(TRUE, View(c)))
\* the encoder is handed something that is not a Context
EncodeOther == 
    /\ ret' = [op |-> "json", value |-> JSONEncoderDefault(FALSE, <<>>)]
    /\ actor' = 0
    /\ UNCHANGED <<regional, tables, genobjs, ctxs, capsVars>>

InitProg(P) ==
    /\ regional \in P.regional
    /\ tables \in {(0 :> g) : g \in P.hourly_demand}
    /\ genobjs = <<>>
    /\ ctxs = <<>>
    /\ actor = 0
    /\ ret = NoValue

IdleCaps ==
    /\ fleet = <<>> /\ vals = <<>> /\ old = <<>> /\ caps = <<>>
    /\ calls = <<>> /\ outcome = "none" /\ msg = <<>>

\* ------------------------------------------------- specification: report
\* One Context, its tables filled by the dispatch step, its metrics and
\* report queried.
DemandUnit == 10 ^ 5
\* Demand tables: empty, all zero, summing to zero, positive, negative.
DemandTables ==
    {<<>>, <<0>>, <<0, 0>>, <<DemandUnit>>, <<DemandUnit, DemandUnit>>,
     <<DemandUnit, 0 - DemandUnit>>, <<0 - DemandUnit>>}

\* Strictly increasing hourly indexes of at most MaxRows rows.
RECURSIVE SortedSeq(_)
SortedSeq(S) ==
    IF S = {} THEN <<>> ELSE <<SetMin(S)>> \o SortedSeq(S \ {SetMin(S)})

IncreasingIndexes ==
    {SortedSeq(S) : S \in {T \in SUBSET (0..MaxHour) : Cardinality(T) <= MaxRows}}
\* The worked example of the event count, and indexes that are not
\* strictly increasing.
ExampleIndex == <<1, 2, 3, 7, 8, 20>>
OtherIndexes == {<<0, 2, 1>>, <<1, 1>>, <<3, 1>>}

\* An unserved table: one shortfall per indexed hour.
UnservedTable(index) == [i \in 1..Len(index) |-> [t |-> index[i], v |-> 2 + (index[i] % 2)]]
UnservedTables ==
    {UnservedTable(x) : x \in IncreasingIndexes \cup {ExampleIndex} \cup OtherIndexes}

ReportP ==
    [nctx |-> 1,
     regional |-> {2},
     hourly_demand |-> {<<DemandUnit, DemandUnit>>},
     demand |-> DemandTables,
     unserved |-> UnservedTables,
     spill |-> {<<>>, <<0, 5>>},
     flags |-> BOOLEAN]

InitReport == InitProg(ReportP) /\ IdleCaps

NextReport ==
    \/ Construct(ReportP)
    \/ \E c \in 1..Len(ctxs), x \in ReportP.demand : AssignTable(c, "demand", x)
    \/ \E c \in 1..Len(ctxs), x \in ReportP.unserved : AssignTable(c, "unserved", x)
    \/ \E c \in 1..Len(ctxs), x \in ReportP.spill : AssignTable(c, "spill", x)
    \/ \E c \in 1..Len(ctxs), b \in ReportP.flags : SetVerbose(c, b)
    \/ \E c \in 1..Len(ctxs), b \in ReportP.flags : SetRegions(c, b)
    \/ \E c \in 1..Len(ctxs) : CallTotalDemand(c)
    \/ \E c \in 1..Len(ctxs) : CallUnservedEnergy(c)
    \/ \E c \in 1..Len(ctxs) : CallSurplusEnergy(c)
    \/ \E c \in 1..Len(ctxs) : CallUnservedPercent(c)
    \/ \E c \in 1..Len(ctxs) : CallStr(c)

SpecReport == InitReport /\ [][NextReport]_vars

\* ------------------------------------------------------ claims: capacities
\* The value a clamp into [lo, hi] yields, case by case.
ExpectedClamp(v, lo, hi) == IF v < lo THEN lo ELSE IF v > hi THEN hi ELSE v

\* The place of tunable j of generator g in the concatenated fleet order.
RECURSIVE Position(_, _, _)
Position(gens, g, j) ==
    IF g = 1 THEN j ELSE Len(gens[g - 1]) + Position(gens, g - 1, j)

TunableAt(gens, k) ==
    CHOOSE s \in {<<g, j>> : g \in 1..Len(gens), j \in 1..MaxTun + 1} :
        /\ s[2] <= Len(gens[s[1]])
        /\ Position(gens, s[1], s[2]) = k

NumTunables(gens) ==
    Cardinality({<<g, j>> \in (1..Len(gens)) \X (1..MaxTun + 1) : j <= Len(gens[g])})

ExpectedAt(k) ==
    LET s == TunableAt(fleet, k)
    IN ExpectedClamp(caps[k], fleet[s[1]][s[2]][1], fleet[s[1]][s[2]][2])

\* C1: with as many values as tunables, the k-th setter call is the k-th
\* tunable's (generator order, then declared order), made exactly once, with
\* the k-th value clamped into that tunable's [min_cap, max_cap].
C1_ClampedInOrder ==
    (outcome # "none" /\ Len(caps) = NumTunables(fleet)) =>
        /\ Len(calls) = NumTunables(fleet)
        /\ \A k \in 1..Len(calls) :
             calls[k] = <<TunableAt(fleet, k)[1], TunableAt(fleet, k)[2], ExpectedAt(k)>>

C1_Witness ==
    /\ outcome = "returned"
    /\ Len(fleet) = 2 /\ Len(fleet[1]) = 2 /\ Len(fleet[2]) = 1
    /\ Len(caps) = 3
    /\ caps[1] < fleet[1][1][1]
    /\ caps[2] > fleet[1][2][2]
    /\ caps[3] >= fleet[2][1][1] /\ caps[3] <= fleet[2][1][2]
    /\ calls = <<<<1, 1, fleet[1][1][1]>>, <<1, 2, fleet[1][2][2]>>, <<2, 1, caps[3]>>>>

\* C2: a call whose sequence is shorter or longer than the number of
\* tunables never returns normally: it raises.
C2_MismatchRaises ==
    (outcome # "none" /\ Len(caps) # NumTunables(fleet)) =>
        outcome \in {"AssertionError", "IndexError"}

C2_Witness ==
    /\ NumTunables(fleet) = 1 /\ Len(caps) = 2
    /\ outcome = "AssertionError"

\* C3: every failure on a count mismatch carries a diagnostic stating both
\* counts, the tunables processed and the length of the sequence.
C3_DiagnosticBothCounts ==
    (outcome \in {"AssertionError", "IndexError"} /\ Len(caps) # NumTunables(fleet)) =>
        msg = <<Len(calls), Len(caps)>>

\* C10: a failing call is not rolled back. Too long: every tunable holds its
\* clamped positional value. Too short, of length n: the first n tunables
\* hold their clamped values and were the only ones set, the others keep
\* the value they had before the call.
C10_NoRollback ==
    /\ outcome = "AssertionError" =>
          /\ Len(caps) > NumTunables(fleet)
          /\ Len(calls) = NumTunables(fleet)
          /\ \A k \in 1..NumTunables(fleet) :
               vals[TunableAt(fleet, k)[1]][TunableAt(fleet, k)[2]] = ExpectedAt(k)
    /\ outcome = "IndexError" =>
          /\ Len(caps) < NumTunables(fleet)
          /\ Len(calls) = Len(caps)
          /\ \A k \in 1..NumTunables(fleet) :
               LET s == TunableAt(fleet, k)
               IN IF k <= Len(caps)
                  THEN vals[s[1]][s[2]] = ExpectedAt(k) /\ calls[k][1] = s[1] /\ calls[k][2] = s[2]
                  ELSE vals[s[1]][s[2]] = old[s[1]][s[2]]

C10_Witness ==
    /\ outcome = "IndexError"
    /\ NumTunables(fleet) = 3 /\ Len(caps) = 2
    /\ vals # old
    /\ vals[2][Len(fleet[2])] = old[2][Len(fleet[2])]

\* --------------------------------------------------- specification: JSON
\* One Context whose fleet is replaced by generators of several kinds, from
\* nemo.generators (the module context.py imports) and from a top-level
\* module named generators.
GeneratorKinds == {ModGenerators, ModNemoGenerators} \X {CCGT, OCGT, PV}

JsonP ==
    [nctx |-> 1,
     regional |-> {2},
     hourly_demand |-> {<<DemandUnit, DemandUnit>>},
     fleets |-> SeqsUpTo(GeneratorKinds, MaxGens)]

InitJson == InitProg(JsonP) /\ IdleCaps

NextJson ==
    \/ Construct(JsonP)
    \/ \E c \in 1..Len(ctxs), k \in JsonP.fleets : AssignGenerators(c, k)
    \/ \E c \in 1..Len(ctxs) : Encode(c)
    \/ EncodeOther

SpecJson == InitJson /\ [][NextJson]_vars

\* ------------------------------------------------ specification: program
\* Two Contexts and every statement on either of them, on small tables.
DefaultKinds == <<<<ModNemoGenerators, CCGT>>, <<ModNemoGenerators, OCGT>>>>

ProgramP ==
    [nctx |-> 2,
     regional |-> {1},
     hourly_demand |-> {<<DemandUnit, DemandUnit>>},
     demand |-> {<<>>, <<DemandUnit, DemandUnit>>},
     unserved |-> {<<>>, UnservedTable(<<1>>)},
     spill |-> {<<>>, <<5>>},
     generation |-> {<<>>, <<7>>},
     caps |-> {<<0, 3>>, <<0, 3, 1>>},
     fleets |-> {DefaultKinds}]

InitProgram == InitProg(ProgramP) /\ IdleCaps

NextProgram ==
    \/ Construct(ProgramP)
    \/ \E c \in 1..Len(ctxs), f \in TableFields : \E x \in ProgramP[f] : AssignTable(c, f, x)
    \/ \E c \in 1..Len(ctxs), f \in TableFields : \E x \in ProgramP[f] : MutateTable(c, f, x)
    \/ \E c \in 1..Len(ctxs), k \in ProgramP.fleets : AssignGenerators(c, k)
    \/ \E c \in 1..Len(ctxs), cs \in ProgramP.caps : CtxSetCapacities(c, cs)
    \/ \E c \in 1..Len(ctxs) : CallTotalDemand(c)
    \/ \E c \in 1..Len(ctxs) : CallUnservedEnergy(c)
    \/ \E c \in 1..Len(ctxs) : CallSurplusEnergy(c)
    \/ \E c \in 1..Len(ctxs) : CallUnservedPercent(c)
    \/ \E c \in 1..Len(ctxs) : CallStr(c)
    \/ \E c \in 1..Len(ctxs) : Encode(c)
    \/ EncodeOther

SpecProgram == InitProgram /\ [][NextProgram]_vars

\* ---------------------------------------------------------- claims: report
LinesOf(report, label) == {i \in 1..Len(report) : report[i].label = label}

\* The maximal runs of consecutive hours among the hours S: one per hour
\* whose predecessor is absent.
Runs(S) == Cardinality({t \in S : (t - 1) \notin S})

StrictlyIncreasing(q) == \A i \in 1..(Len(q) - 1) : q[i] < q[i + 1]

\* C4: unserved_percent returns nan when the demand sums to zero, and
\* otherwise unserved energy / total demand * 100, which is 0 when nothing
\* is unserved.
C4_UnservedPercent ==
    ret.op = "unserved_percent" =>
        LET o == View(actor)
            d == SumSeq(o.demand)
            u == SumSeq([i \in 1..Len(o.unserved) |-> o.unserved[i].v])
        IN IF d = 0 THEN ret.value = NaN
           ELSE /\ ret.value = Ratio(u * 100, d)
                /\ o.unserved = <<>> => ret.value.num = 0

C4_Witness ==
    /\ ret.op = "unserved_percent"
    /\ View(actor).demand = <<DemandUnit, 0 - DemandUnit>>
    /\ View(actor).unserved # <<>>
    /\ ret.value = NaN

\* C5: for a non-empty unserved table whose index is strictly increasing,
\* the report's event count is the number of maximal runs of consecutive
\* hours in the index (and the unserved hours are its rows).
C5_EventCount ==
    (/\ ret.op = "str"
     /\ View(actor).unserved # <<>>
     /\ StrictlyIncreasing([i \in 1..Len(View(actor).unserved) |-> View(actor).unserved[i].t])) =>
        LET u == View(actor).unserved
            r == ret.value
        IN /\ \E i \in 1..Len(r) :
                /\ LinesOf(r, "Number of unserved energy events") = {i}
                /\ r[i].args = <<Runs({u[k].t : k \in 1..Len(u)})>>
           /\ \E i \in 1..Len(r) :
                /\ LinesOf(r, "Unserved total hours") = {i}
                /\ r[i].args = <<Len(u)>>

C5_Witness ==
    /\ ret.op = "str"
    /\ View(actor).unserved = UnservedTable(ExampleIndex)
    /\ \E i \in 1..Len(ret.value) :
         /\ ret.value[i].label = "Number of unserved energy events"
         /\ ret.value[i].args = <<3>>
    /\ \E i \in 1..Len(ret.value) :
         /\ ret.value[i].label = "Unserved total hours"
         /\ ret.value[i].args = <<6>>

\* unserved energy / demand * 100 > 0.002 * 1.001, in whole numbers; false
\* when the demand is zero (the percentage is nan).
OverStandard(o) ==
    LET d == SumSeq(o.demand)
        u == SumSeq([i \in 1..Len(o.unserved) |-> o.unserved[i].v])
    IN /\ d # 0
       /\ IF d > 0 THEN u * 100 * 1000000 > 2002 * d
          ELSE u * 100 * 1000000 < 2002 * d

\* C8: with unserved rows the report holds the percentage line, and the
\* warning line exactly when the percentage exceeds 0.002 * 1.001, right
\* after the percentage line (never for nan); with no unserved rows it ends
\* with "No unserved energy" and holds neither line.
C8_WarningLine ==
    ret.op = "str" =>
        LET o == View(actor)
            r == ret.value
            pct == LinesOf(r, "Unserved energy")
            warn == LinesOf(r, "WARNING: reliability standard exceeded")
        IN IF o.unserved = <<>>
           THEN /\ r[Len(r)].label = "No unserved energy"
                /\ pct = {} /\ warn = {}
           ELSE /\ Cardinality(pct) = 1
                /\ LinesOf(r, "No unserved energy") = {}
                /\ IF OverStandard(o)
                   THEN warn = {i + 1 : i \in pct}
                   ELSE warn = {}

C8_Witness ==
    /\ ret.op = "str"
    /\ View(actor).unserved # <<>>
    /\ OverStandard(View(actor))
    /\ \E i \in 1..(Len(ret.value) - 1) :
         /\ ret.value[i].label = "Unserved energy"
         /\ ret.value[i + 1].label = "WARNING: reliability standard exceeded"

\* ------------------------------------------------------------ claims: JSON
\* C7: the projection holds one record per generator, in fleet order, whose
\* technology is the bare class name, the module qualifier stripped.
C7_TechnologyBare ==
    (ret.op = "json" /\ ret.value.kind = "list") =>
        LET g == View(actor).generators
        IN /\ Len(ret.value.items) = Len(g)
           /\ \A k \in 1..Len(g) :
                /\ ret.value.items[k].label = g[k].label
                /\ ret.value.items[k].technology = g[k].cls

\* --------------------------------------------------------- claims: program
\* C6: a statement about one Context leaves every other Context's demand,
\* result tables and generators as they were.
C6_Isolation ==
    [][\A c \in 1..Len(ctxs) : c # actor' => View(c)' = View(c)]_vars

C6_Witness ==
    /\ Len(ctxs) = 2
    /\ actor = 1
    /\ View(1).demand # View(2).demand
    /\ View(1).spill # View(2).spill
    /\ View(1).generation # View(2).generation
    /\ View(1).unserved # View(2).unserved
    /\ View(1).generators[1].vals # View(2).generators[1].vals

\* C9: no statement changes a Context's hours or timesteps; timesteps is
\* len(demand) when the Context is constructed and hours is the length of
\* the regional demand table; the report's Timesteps line shows hours.
C9_HoursFixed ==
    [][/\ \A c \in 1..Len(ctxs) :
            /\ ctxs'[c].hours = ctxs[c].hours
            /\ ctxs'[c].timesteps = ctxs[c].timesteps
       /\ Len(ctxs') > Len(ctxs) =>
            /\ ctxs'[Len(ctxs')].hours = regional
            /\ ctxs'[Len(ctxs')].timesteps = Len(tables'[ctxs'[Len(ctxs')].demand])
       /\ ret'.op = "str" =>
            \E i \in 1..Len(ret'.value) :
                /\ LinesOf(ret'.value, "Timesteps") = {i}
                /\ ret'.value[i].args = <<ctxs[actor'].hours>>]_vars

C9_Witness ==
    /\ ret.op = "str"
    /\ View(actor).timesteps # Len(View(actor).demand)
    /\ View(actor).hours # View(actor).timesteps
    /\ \E i \in 1..Len(ret.value) :
         ret.value[i] = Line("Timesteps", <<View(actor).hours>>)
====
